---- MODULE Spec2Model ----
(***************************************************************************)
(* Model of src/src/sanitize-tools.ts: the schema sanitizer                *)
(* (sanitizeSchema), the content flattener (extractTexts, flattenContent), *)
(* the execution wrapper (wrapExecute) and the tool adapter                *)
(* (sanitizeTools).                                                        *)
(*                                                                         *)
(* JavaScript values are records.  A primitive is [t, s]: t is the type    *)
(* tag and s the payload as text (for a number or boolean, its JSON text). *)
(* An object is [t, keys, vals] with the own enumerable keys in insertion  *)
(* order and the values at the same positions; an array is [t, keys, vals] *)
(* with no keys and the elements in vals.                                  *)
(***************************************************************************)
EXTENDS Integers, Sequences, FiniteSets, TLC

VARIABLES
  schema, cleaned, spc,
  result, flat, fpc,
  heap, tools, out, status, thrown, returned, given,
  calls

vars == <<schema, cleaned, spc, result, flat, fpc,
          heap, tools, out, status, thrown, returned, given, calls>>

schemaVars == <<schema, cleaned, spc>>
flattenVars == <<result, flat, fpc>>
adapterVars == <<heap, tools, out, status, thrown, returned, given>>

(***************************************************************************)
(* Bounds of the model.                                                    *)
(***************************************************************************)
MaxDepth == 5
MaxParts == 2
NTools == 2
NInv == 2

(***************************************************************************)
(* JavaScript values.                                                      *)
(***************************************************************************)
Prim(t, s) == [t |-> t, s |-> s]
Undefined == Prim("undefined", "")
Null == Prim("null", "")
Str(s) == Prim("string", s)
Num(s) == Prim("number", s)
Bool(s) == Prim("boolean", s)
BigInt == Prim("bigint", "1")
Obj(keys, vals) == [t |-> "object", keys |-> keys, vals |-> vals]
Arr(vals) == [t |-> "array", keys |-> <<>>, vals |-> vals]
EmptyObj == Obj(<<>>, <<>>)

\* value !== null && typeof value === "object" && !Array.isArray(value)
IsTree(value) == value.t = "object"

\* Array.isArray(value)
IsArray(value) == value.t = "array"

\* typeof value === "object"  (true of null and of arrays as well)
TypeofObject(value) == value.t \in {"object", "array", "null"}

\* !value is false
Truthy(value) ==
  CASE value.t \in {"undefined", "null"} -> FALSE
    [] value.t = "boolean" -> value.s = "true"
    [] value.t = "number" -> value.s # "0"
    [] value.t = "string" -> value.s # ""
    [] OTHER -> TRUE

\* The keys Object.entries enumerates: the own keys of an object in
\* insertion order, the indices "0", "1", ... of an array.
EntryKeys(value) ==
  IF IsArray(value) THEN [i \in 1..Len(value.vals) |-> ToString(i - 1)]
  ELSE IF IsTree(value) THEN value.keys
  ELSE <<>>

\* key in value, for the own keys of an object (an array has only its
\* indices and length).
HasKey(value, key) ==
  IsTree(value) /\ \E i \in 1..Len(value.keys) : value.keys[i] = key

\* value[key], undefined when the key is missing
Get(value, key) ==
  IF HasKey(value, key)
  THEN value.vals[CHOOSE i \in 1..Len(value.keys) : value.keys[i] = key]
  ELSE Undefined

(***************************************************************************)
(* Schema sanitizer.                                                       *)
(***************************************************************************)
STRIP_KEYS ==
  {"minLength", "maxLength", "minItems", "maxItems", "exclusiveMinimum",
   "exclusiveMaximum", "pattern", "format", "default", "$schema"}

RECURSIVE sanitizeSchema(_)
RECURSIVE sanitizeEntries(_, _, _, _)

\* sanitizeItems with the map left out: the array is copied as it is.
sanitizeItemsNoMap(value) ==
  Arr(value.vals)

\* The array branch of the loop body: value.map(item => ...)
sanitizeItems(value) ==
  Arr([j \in 1..Len(value.vals) |->
         IF IsTree(value.vals[j]) THEN sanitizeSchema(value.vals[j])
         ELSE value.vals[j]])

\* The for loop of sanitizeSchema from entry i on, out being the object
\* built so far.
sanitizeEntries(keys, vals, i, acc) ==
  IF i > Len(keys) THEN acc
  ELSE IF keys[i] \in STRIP_KEYS THEN sanitizeEntries(keys, vals, i + 1, acc)
  ELSE
    LET value == vals[i]
        kept == IF IsTree(value) THEN sanitizeSchema(value)
                ELSE IF IsArray(value) THEN sanitizeItems(value)
                ELSE value
    IN sanitizeEntries(keys, vals, i + 1,
                       Obj(Append(acc.keys, keys[i]), Append(acc.vals, kept)))

sanitizeSchema(tree) ==
  sanitizeEntries(EntryKeys(tree), tree.vals, 1, EmptyObj)

(***************************************************************************)
(* Outcomes of a call: a returned string, a returned undefined, or a       *)
(* thrown error.                                                           *)
(***************************************************************************)
Ret(s) == [k |-> "string", s |-> s]
RetUndefined == [k |-> "undefined", s |-> ""]
Throws(e) == [k |-> "throw", s |-> e]
NoOutcome == [k |-> "none", s |-> ""]

(***************************************************************************)
(* JSON.stringify(value).  The strings of the model hold no character that *)
(* JSON escapes, so a string is encoded by putting it between quotes.      *)
(* undefined has no encoding: at the top level the call returns undefined, *)
(* a property holding it is left out and an array element holding it is    *)
(* written null.  A BigInt makes the call throw a TypeError.               *)
(***************************************************************************)
RECURSIVE Serialize(_)
RECURSIVE SerializeItems(_, _, _)
RECURSIVE SerializeProps(_, _, _, _)

Quote(s) == "\"" \o s \o "\""

SerializeItems(vals, i, acc) ==
  IF i > Len(vals) THEN Ret(acc \o "]")
  ELSE LET e == Serialize(vals[i])
           txt == IF e.k = "undefined" THEN "null" ELSE e.s
           sep == IF i > 1 THEN "," ELSE ""
       IN IF e.k = "throw" THEN e
          ELSE SerializeItems(vals, i + 1, acc \o sep \o txt)

SerializeProps(keys, vals, i, acc) ==
  IF i > Len(keys) THEN Ret(acc \o "}")
  ELSE LET e == Serialize(vals[i])
           sep == IF acc # "{" THEN "," ELSE ""
       IN IF e.k = "throw" THEN e
          ELSE IF e.k = "undefined" THEN SerializeProps(keys, vals, i + 1, acc)
          ELSE SerializeProps(keys, vals, i + 1,
                              acc \o sep \o Quote(keys[i]) \o ":" \o e.s)

Serialize(value) ==
  CASE value.t = "string" -> Ret(Quote(value.s))
    [] value.t \in {"number", "boolean"} -> Ret(value.s)
    [] value.t = "null" -> Ret("null")
    [] value.t = "undefined" -> RetUndefined
    [] value.t = "bigint" -> Throws("TypeError")
    [] value.t = "array" -> SerializeItems(value.vals, 1, "[")
    [] value.t = "object" -> SerializeProps(value.keys, value.vals, 1, "{")

JSONstringify(value) == Serialize(value)

(***************************************************************************)
(* Content flattener.                                                      *)
(***************************************************************************)
\* The condition of the if in the loop of extractTexts
IsTextPart(part) ==
  /\ part.t # "null"
  /\ TypeofObject(part)
  /\ HasKey(part, "type")
  /\ Get(part, "type") = Str("text")
  /\ HasKey(part, "text")
  /\ Get(part, "text").t = "string"

RECURSIVE extractFrom(_, _, _)
\* The for loop of extractTexts from part i on, texts being the strings
\* pushed so far.
extractFrom(parts, i, texts) ==
  IF i > Len(parts) THEN texts
  ELSE IF IsTextPart(parts[i])
       THEN extractFrom(parts, i + 1, Append(texts, Get(parts[i], "text").s))
       ELSE extractFrom(parts, i + 1, texts)

\* extractTexts collecting the text of every part that holds a string
\* text, whatever its type.
extractTextsAnyType(parts) ==
  LET RECURSIVE any(_, _)
      any(i, texts) ==
        IF i > Len(parts) THEN texts
        ELSE IF HasKey(parts[i], "text") /\ Get(parts[i], "text").t = "string"
             THEN any(i + 1, Append(texts, Get(parts[i], "text").s))
             ELSE any(i + 1, texts)
  IN any(1, <<>>)

extractTexts(parts) == extractFrom(parts, 1, <<>>)

RECURSIVE JoinFrom(_, _, _)
\* texts.join(sep)
JoinFrom(texts, i, sep) ==
  IF i > Len(texts) THEN ""
  ELSE IF i = Len(texts) THEN texts[i]
  ELSE texts[i] \o sep \o JoinFrom(texts, i + 1, sep)

Join(texts, sep) == JoinFrom(texts, 1, sep)

\* The first if of flattenContent after the string test: the texts of
\* result.content when result is an object whose content is an array.
contentTexts(res) ==
  IF /\ res.t # "null"
     /\ TypeofObject(res)
     /\ HasKey(res, "content")
     /\ IsArray(Get(res, "content"))
  THEN extractTexts(Get(res, "content").vals)
  ELSE <<>>

\* The second if: the texts of result when it is an array.
arrayTexts(res) ==
  IF IsArray(res) THEN extractTexts(res.vals) ELSE <<>>

\* flattenContent returning the joined texts also when none was collected.
flattenContentNoLengthTest(res) ==
  IF res.t = "string" THEN Ret(res.s)
  ELSE IF HasKey(res, "content") /\ IsArray(Get(res, "content"))
       THEN Ret(Join(contentTexts(res), "\n"))
  ELSE IF IsArray(res) THEN Ret(Join(arrayTexts(res), "\n"))
  ELSE JSONstringify(res)

flattenContent(res) ==
  IF res.t = "string" THEN Ret(res.s)
  ELSE IF Len(contentTexts(res)) > 0 THEN Ret(Join(contentTexts(res), "\n"))
  ELSE IF Len(arrayTexts(res)) > 0 THEN Ret(Join(arrayTexts(res), "\n"))
  ELSE JSONstringify(res)

(***************************************************************************)
(* Inputs of the flattener: the primitive results, the objects without     *)
(* content blocks, and every sequence of at most MaxParts parts, bare,     *)
(* under "content", and under "content" next to another field.             *)
(***************************************************************************)
TypeFields == {<<>>, <<Str("text")>>, <<Str("image")>>}
TextFields == {<<>>, <<Str("a")>>, <<Str("b")>>, <<Str("")>>, <<Num("1")>>}

Block(ty, tx) ==
  Obj((IF ty = <<>> THEN <<>> ELSE <<"type">>) \o
      (IF tx = <<>> THEN <<>> ELSE <<"text">>), ty \o tx)

Parts ==
  {Block(ty, tx) : ty \in TypeFields, tx \in TextFields}
    \cup {Null, Str("a"), Obj(<<"type", "url">>, <<Str("image"), Str("x")>>)}

PartSeqs == UNION {[1..n -> Parts] : n \in 0..MaxParts}

FlattenInputs ==
  {Str("hello"), Str(""), Undefined, Null, Num("1"), Bool("false"), BigInt,
   EmptyObj, Obj(<<"foo">>, <<Num("1")>>), Obj(<<"foo">>, <<BigInt>>),
   Obj(<<"foo">>, <<Undefined>>), Obj(<<"content">>, <<Str("a")>>),
   Arr(<<Undefined, Num("1")>>)}
    \cup {Arr(p) : p \in PartSeqs}
    \cup {Obj(<<"content">>, <<Arr(p)>>) : p \in PartSeqs}
    \cup {Obj(<<"content", "foo">>, <<Arr(p), Num("1")>>) : p \in PartSeqs}

(***************************************************************************)
(* Inputs of the sanitizer: every value built from the leaves by at most   *)
(* MaxDepth nestings into a tree or a sequence.                            *)
(***************************************************************************)
SchemaLeaves == {Str("s"), Num("3")}

RECURSIVE SchemaValues(_)
SchemaValues(d) ==
  IF d = 0 THEN SchemaLeaves
  ELSE LET V == SchemaValues(d - 1) IN
       V \cup {EmptyObj}
         \cup {Obj(<<"items">>, <<v>>) : v \in V}
         \cup {Obj(<<"format", "type">>, <<v, Str("s")>>) : v \in V}
         \cup {Arr(<<Str("s"), v>>) : v \in V}

SchemaInputs == {v \in SchemaValues(MaxDepth) : IsTree(v)}

(***************************************************************************)
(* Tools.  A tool record lives in a heap cell and is referred to by its    *)
(* index, so that a record shared by two collections is one cell.  Its     *)
(* inputSchema is a descriptor: the original one of a tool, for which the  *)
(* canonicalizer (asSchema) yields canon or fails, or one constructed by   *)
(* jsonSchema from a tree, for which it yields that tree.                  *)
(***************************************************************************)
Descriptor(kind, owner, canon) == [kind |-> kind, owner |-> owner, canon |-> canon]
CanonFails(owner) == Prim("throws", "CanonError:" \o owner)
NoFunction == [kind |-> "absent", fn |-> ""]
Original(fn) == [kind |-> "original", fn |-> fn]
Wrapped(fn) == [kind |-> "wrapped", fn |-> fn]

Tool(inputSchema, execute, toModelOutput) ==
  [inputSchema |-> inputSchema, execute |-> execute, toModelOutput |-> toModelOutput]

\* asSchema(tool.inputSchema): the resolved schema, or the thrown error
asSchema(descriptor) ==
  IF descriptor.canon.t = "throws"
  THEN [k |-> "throw", s |-> descriptor.canon.s, jsonSchema |-> Undefined]
  ELSE [k |-> "ok", s |-> "", jsonSchema |-> descriptor.canon]

\* jsonSchema(cleaned)
jsonSchema(tree) == Descriptor("constructed", "", tree)

\* wrapExecute keeping the rendering hook of the tool.
wrapExecuteKeepHook(h, ref) ==
  IF h[ref].execute.kind = "absent" THEN [heap |-> h, ref |-> ref]
  ELSE [heap |-> Append(h, [h[ref] EXCEPT !.execute = Wrapped(h[ref].execute.fn)]),
        ref |-> Len(h) + 1]

\* wrapExecute(tool): the tool itself when it has no execute, else a new
\* record with toModelOutput undefined and execute the wrapper of original.
wrapExecute(h, ref) ==
  LET tool == h[ref]
      original == tool.execute
  IN IF original.kind = "absent" THEN [heap |-> h, ref |-> ref]
     ELSE [heap |-> Append(h, [tool EXCEPT !.toModelOutput = "undefined",
                                            !.execute = Wrapped(original.fn)]),
           ref |-> Len(h) + 1]

\* The spread writing the new descriptor into the tool record itself.
spreadInputSchemaInPlace(h, ref, descriptor) ==
  [heap |-> [h EXCEPT ![ref].inputSchema = descriptor], ref |-> ref]

\* { ...tool, inputSchema: descriptor }: a new record
spreadInputSchema(h, ref, descriptor) ==
  [heap |-> Append(h, [h[ref] EXCEPT !.inputSchema = descriptor]),
   ref |-> Len(h) + 1]

\* The skip test of the loop body: !raw || typeof raw !== "object"
skipsSanitation(raw) == ~Truthy(raw) \/ ~TypeofObject(raw)

\* The body of the loop of sanitizeTools for the tool at ref: the record
\* stored under the tool's name, or the error thrown by asSchema.
adaptTool(h, ref) ==
  LET resolved == asSchema(h[ref].inputSchema)
      raw == resolved.jsonSchema
  IN IF resolved.k = "throw"
     THEN [k |-> "throw", s |-> resolved.s, heap |-> h, ref |-> ref]
     ELSE IF skipsSanitation(raw)
     THEN LET w == wrapExecute(h, ref)
          IN [k |-> "ok", s |-> "", heap |-> w.heap, ref |-> w.ref]
     ELSE LET sp == spreadInputSchema(h, ref, jsonSchema(sanitizeSchema(raw)))
              w == wrapExecute(sp.heap, sp.ref)
          IN [k |-> "ok", s |-> "", heap |-> w.heap, ref |-> w.ref]

\* The names of the tools, in the order Object.entries enumerates them
ToolName(i) == "tool" \o ToString(i)
ToolNames == [i \in 1..NTools |-> ToolName(i)]

RECURSIVE sanitizeToolsIsolated(_, _, _, _)
\* The loop with a failing tool left out of the output instead of failing
\* the call.
sanitizeToolsIsolated(h, tls, i, acc) ==
  IF i > Len(ToolNames)
  THEN [status |-> "returned", thrown |-> "", heap |-> h, out |-> acc]
  ELSE LET name == ToolNames[i]
           a == adaptTool(h, tls[name])
       IN IF a.k = "throw" THEN sanitizeToolsIsolated(h, tls, i + 1, acc)
          ELSE sanitizeToolsIsolated(a.heap, tls, i + 1, acc @@ (name :> a.ref))

RECURSIVE sanitizeToolsFrom(_, _, _, _)
\* The loop of sanitizeTools from entry i on, out being the collection
\* built so far; the return of out after the last entry.
sanitizeToolsFrom(h, tls, i, acc) ==
  IF i > Len(ToolNames)
  THEN [status |-> "returned", thrown |-> "", heap |-> h, out |-> acc]
  ELSE LET name == ToolNames[i]
           a == adaptTool(h, tls[name])
       IN IF a.k = "throw"
          THEN [status |-> "failed", thrown |-> a.s, heap |-> h, out |-> acc]
          ELSE sanitizeToolsFrom(a.heap, tls, i + 1, acc @@ (name :> a.ref))

sanitizeTools(h, tls) == sanitizeToolsFrom(h, tls, 1, <<>>)

(***************************************************************************)
(* Inputs of the adapter: every collection of NTools tools, each with one  *)
(* of the canonical schemas below, with or without an execution function   *)
(* and with or without a rendering hook.                                   *)
(***************************************************************************)
StringSchema == Obj(<<"type", "minLength">>, <<Str("string"), Num("3")>>)
PlainSchema == Obj(<<"type">>, <<Str("string")>>)
CanonChoices ==
  {Prim("throws", ""), Undefined, Bool("true"), StringSchema, PlainSchema,
   Arr(<<StringSchema>>)}

ToolShapes == CanonChoices \X BOOLEAN \X BOOLEAN

MakeTool(name, shape) ==
  Tool(Descriptor("original", name,
                  IF shape[1].t = "throws" THEN CanonFails(name) ELSE shape[1]),
       IF shape[2] THEN Original(name) ELSE NoFunction,
       IF shape[3] THEN "hook" ELSE "absent")

(***************************************************************************)
(* Invocations of the wrapped execute.  Each invocation has its own        *)
(* executeArgs and result; origCalls, origFn and origArgs record the calls *)
(* it made to an original execution function, flattened whether it called  *)
(* flattenContent.                                                         *)
(***************************************************************************)
Pending == [k |-> "pending", v |-> Undefined, e |-> ""]
Resolved(v) == [k |-> "resolved", v |-> v, e |-> ""]
Rejected(e) == [k |-> "rejected", v |-> Undefined, e |-> e]

IdleCall ==
  [pc |-> "idle", tool |-> "", args |-> "", origCalls |-> 0, origFn |-> "",
   origArgs |-> "", settled |-> Pending, flattened |-> FALSE,
   outcome |-> NoOutcome]

\* The wrapper returning the encoding of the result instead of flattening it.
wrappedReturnEncoded(res) == JSONstringify(res)

\* return flattenContent(result)
wrappedReturn(res) == flattenContent(res)

\* The await turning a rejection into a returned string.
awaitRejectedCaught(e) == Ret(e)

\* await original(...executeArgs) when the promise rejects with e: the
\* wrapper has no handler, so its own promise rejects with e.
awaitRejected(e) == Throws(e)

ExecArgs == {"args1", "args2"}
ExecResults ==
  {Arr(<<Obj(<<"type", "text">>, <<Str("text"), Str("result")>>)>>),
   Str("plain"), Undefined, BigInt}
ExecErrors == {"ToolError"}
ExecShapes ==
  {<<StringSchema, TRUE, TRUE>>, <<Undefined, TRUE, FALSE>>,
   <<Prim("throws", ""), TRUE, TRUE>>}

IdleSchema ==
  /\ schema = EmptyObj
  /\ cleaned = EmptyObj
  /\ spc = "idle"

IdleFlatten ==
  /\ result = Undefined
  /\ flat = NoOutcome
  /\ fpc = "idle"

IdleAdapter ==
  /\ heap = <<>>
  /\ tools = <<>>
  /\ out = <<>>
  /\ status = "idle"
  /\ thrown = ""
  /\ returned = <<>>
  /\ given = <<>>

IdleCalls == calls = [i \in 1..NInv |-> IdleCall]

InitSchema ==
  /\ schema \in SchemaInputs
  /\ cleaned = EmptyObj
  /\ spc = "input"
  /\ IdleFlatten /\ IdleAdapter /\ IdleCalls

\* A call sanitizeSchema(schema)
Sanitize ==
  /\ spc = "input"
  /\ cleaned' = sanitizeSchema(schema)
  /\ spc' = "done"
  /\ UNCHANGED <<schema, flattenVars, adapterVars, calls>>

NextSchema == Sanitize

SpecSchema == InitSchema /\ [][NextSchema]_vars

InitFlatten ==
  /\ result \in FlattenInputs
  /\ flat = NoOutcome
  /\ fpc = "input"
  /\ IdleSchema /\ IdleAdapter /\ IdleCalls

\* A call flattenContent(result)
Flatten ==
  /\ fpc = "input"
  /\ flat' = flattenContent(result)
  /\ fpc' = "done"
  /\ UNCHANGED <<result, schemaVars, adapterVars, calls>>

NextFlatten == Flatten

SpecFlatten == InitFlatten /\ [][NextFlatten]_vars

\* The collection handed to sanitizeTools: tool i is heap cell i.
InputCollection ==
  [n \in {ToolName(i) : i \in 1..NTools} |->
                      CHOOSE i \in 1..NTools : ToolName(i) = n]

InitAdapter ==
  /\ \E shapes \in [1..NTools -> ToolShapes] :
       heap = [i \in 1..NTools |-> MakeTool(ToolName(i), shapes[i])]
  /\ given = heap
  /\ tools = InputCollection
  /\ out = <<>>
  /\ status = "ready"
  /\ thrown = ""
  /\ returned = <<>>

InitAdapt == InitAdapter /\ IdleSchema /\ IdleFlatten /\ IdleCalls

\* A call sanitizeTools(tools) that returns
SanitizeToolsReturns ==
  /\ status = "ready"
  /\ LET r == sanitizeTools(heap, tools)
     IN /\ r.status = "returned"
        /\ heap' = r.heap
        /\ out' = r.out
        /\ returned' = r.out
        /\ status' = "returned"
        /\ thrown' = r.thrown
  /\ UNCHANGED <<tools, given, schemaVars, flattenVars, calls>>

\* A call sanitizeTools(tools) that throws
SanitizeToolsThrows ==
  /\ status = "ready"
  /\ LET r == sanitizeTools(heap, tools)
     IN /\ r.status = "failed"
        /\ heap' = r.heap
        /\ out' = r.out
        /\ status' = "failed"
        /\ thrown' = r.thrown
  /\ UNCHANGED <<tools, returned, given, schemaVars, flattenVars, calls>>

NextAdapt == SanitizeToolsReturns \/ SanitizeToolsThrows

SpecAdapt == InitAdapt /\ [][NextAdapt]_vars

InitExec ==
  /\ \E shape \in ExecShapes :
       heap = [i \in 1..NTools |-> MakeTool(ToolName(i), shape)]
  /\ given = heap
  /\ tools = InputCollection
  /\ out = <<>>
  /\ status = "ready"
  /\ thrown = ""
  /\ returned = <<>>
  /\ IdleSchema /\ IdleFlatten /\ IdleCalls

\* The host calls the execute of the adapted tool name with executeArgs a:
\* the wrapper calls original(...executeArgs) and awaits it.
Invoke(i, name, a) ==
  /\ status = "returned"
  /\ calls[i].pc = "idle"
  /\ name \in DOMAIN returned
  /\ heap[returned[name]].execute.kind = "wrapped"
  /\ calls' = [calls EXCEPT ![i] =
                 [@ EXCEPT !.pc = "awaiting", !.tool = name, !.args = a,
                           !.origCalls = @ + 1,
                           !.origFn = heap[returned[name]].execute.fn,
                           !.origArgs = a]]
  /\ UNCHANGED <<schemaVars, flattenVars, adapterVars>>

\* The promise of the original execution function resolves with r
OriginalResolves(i, r) ==
  /\ calls[i].pc = "awaiting"
  /\ calls' = [calls EXCEPT ![i] = [@ EXCEPT !.pc = "settled", !.settled = Resolved(r)]]
  /\ UNCHANGED <<schemaVars, flattenVars, adapterVars>>

\* The promise of the original execution function rejects with e
OriginalRejects(i, e) ==
  /\ calls[i].pc = "awaiting"
  /\ calls' = [calls EXCEPT ![i] = [@ EXCEPT !.pc = "settled", !.settled = Rejected(e)]]
  /\ UNCHANGED <<schemaVars, flattenVars, adapterVars>>

\* The wrapper resumes after the await with the result
ResumeResolved(i) ==
  /\ calls[i].pc = "settled"
  /\ calls[i].settled.k = "resolved"
  /\ LET o == wrappedReturn(calls[i].settled.v)
     IN calls' = [calls EXCEPT ![i] =
                    [@ EXCEPT !.pc = IF o.k = "throw" THEN "rejected" ELSE "returned",
                              !.flattened = TRUE,
                              !.outcome = o]]
  /\ UNCHANGED <<schemaVars, flattenVars, adapterVars>>

\* The await throws the rejection out of the wrapper
ResumeRejected(i) ==
  /\ calls[i].pc = "settled"
  /\ calls[i].settled.k = "rejected"
  /\ LET o == awaitRejected(calls[i].settled.e)
     IN calls' = [calls EXCEPT ![i] =
                    [@ EXCEPT !.pc = IF o.k = "throw" THEN "rejected" ELSE "returned",
                              !.outcome = o]]
  /\ UNCHANGED <<schemaVars, flattenVars, adapterVars>>

NextExec ==
  \/ SanitizeToolsReturns
  \/ SanitizeToolsThrows
  \/ \E i \in 1..NInv, name \in {ToolName(t) : t \in 1..NTools}, a \in ExecArgs :
       Invoke(i, name, a)
  \/ \E i \in 1..NInv, r \in ExecResults : OriginalResolves(i, r)
  \/ \E i \in 1..NInv, e \in ExecErrors : OriginalRejects(i, e)
  \/ \E i \in 1..NInv : ResumeResolved(i)
  \/ \E i \in 1..NInv : ResumeRejected(i)

SpecExec == InitExec /\ [][NextExec]_vars

(***************************************************************************)
(* C1 (sanitizer).                                                         *)
(***************************************************************************)
RECURSIVE HasDenyKey(_)
\* Some denylisted key occurs in the value, at any depth.
HasDenyKey(v) ==
  IF IsTree(v)
  THEN \E i \in 1..Len(v.keys) : v.keys[i] \in STRIP_KEYS \/ HasDenyKey(v.vals[i])
  ELSE IF IsArray(v) THEN \E i \in 1..Len(v.vals) : HasDenyKey(v.vals[i])
  ELSE FALSE

RECURSIVE Stripped(_)
\* The copy of a value with the denylisted keys removed at every level.
Stripped(v) ==
  IF IsTree(v)
  THEN LET keep == {i \in 1..Len(v.keys) : v.keys[i] \notin STRIP_KEYS}
           Pick(n) == CHOOSE i \in keep : Cardinality({j \in keep : j < i}) = n - 1
       IN Obj([n \in 1..Cardinality(keep) |-> v.keys[Pick(n)]],
              [n \in 1..Cardinality(keep) |-> Stripped(v.vals[Pick(n)])])
  ELSE IF IsArray(v) THEN Arr([i \in 1..Len(v.vals) |-> Stripped(v.vals[i])])
  ELSE v

RECURSIVE NoNestedSeq(_)
\* No sequence of the value is directly an element of another sequence.
NoNestedSeq(v) ==
  IF IsTree(v) THEN \A i \in 1..Len(v.vals) : NoNestedSeq(v.vals[i])
  ELSE IF IsArray(v)
  THEN \A i \in 1..Len(v.vals) : ~IsArray(v.vals[i]) /\ NoNestedSeq(v.vals[i])
  ELSE TRUE

RefIsContentBlock(p) ==
  /\ IsTree(p)
  /\ \E i \in 1..Len(p.keys) : p.keys[i] = "type" /\ p.vals[i] = Str("text")
  /\ \E i \in 1..Len(p.keys) : p.keys[i] = "text" /\ p.vals[i].t = "string"

\* The text fields of the recognized content blocks, in original order
RefTexts(parts) ==
  LET blocks == SelectSeq(parts, RefIsContentBlock)
  IN [n \in 1..Len(blocks) |-> Get(blocks[n], "text").s]

RECURSIVE RefJoin(_)
\* The texts joined by a newline
RefJoin(texts) ==
  IF Len(texts) = 1 THEN texts[1]
  ELSE RefJoin(SubSeq(texts, 1, Len(texts) - 1)) \o "\n" \o texts[Len(texts)]

\* The four-step decision procedure
RefFlatten(r) ==
  LET wrapped == IF IsTree(r) /\ HasKey(r, "content") /\ IsArray(Get(r, "content"))
                 THEN RefTexts(Get(r, "content").vals) ELSE <<>>
      bare == IF IsArray(r) THEN RefTexts(r.vals) ELSE <<>>
  IN CASE r.t = "string" -> Ret(r.s)
       [] r.t # "string" /\ wrapped # <<>> -> Ret(RefJoin(wrapped))
       [] r.t # "string" /\ wrapped = <<>> /\ bare # <<>> -> Ret(RefJoin(bare))
       [] OTHER -> JSONstringify(r)

\* The texts the flattener recognizes in a result
RefCollected(r) ==
  IF IsTree(r) /\ HasKey(r, "content") /\ IsArray(Get(r, "content"))
  THEN RefTexts(Get(r, "content").vals)
  ELSE IF IsArray(r) THEN RefTexts(r.vals)
  ELSE <<>>

\* An object with at least one field, or a sequence with at least one element
NonEmptyObject(r) ==
  \/ IsTree(r) /\ Len(r.keys) > 0
  \/ IsArray(r) /\ Len(r.vals) > 0

\* C2 as stated: for every result value, flattenContent returns a string
\* and never raises an error.
C2_TotalIntoStrings ==
  fpc = "done" => flat.k = "string"

\* C3 as stated: for every result that is a non-empty object, flattenContent
\* never returns the empty string.
C3_Original ==
  fpc = "done" /\ NonEmptyObject(result) => flat # Ret("")

\* C3 amended: for every result that is a non-empty object, flattenContent
\* returns the newline-joined texts of the recognized content blocks when at
\* least one was collected and otherwise the structural encoding of the
\* whole result, and it returns the empty string only when the single text
\* collected is the empty string.
C3_NonEmpty ==
  fpc = "done" /\ NonEmptyObject(result) =>
    /\ RefCollected(result) # <<>> => flat = Ret(RefJoin(RefCollected(result)))
    /\ RefCollected(result) = <<>> => flat = JSONstringify(result)
    /\ flat = Ret("") => RefCollected(result) = <<"">>

\* A sequence holding one non-text block is flattened to its encoding.
C3_Witness ==
  /\ fpc = "done"
  /\ result = Arr(<<Obj(<<"type", "url">>, <<Str("image"), Str("x")>>)>>)
  /\ flat = Ret("[{\"type\":\"image\",\"url\":\"x\"}]")

\* C5: for every result value, flattenContent(result) is the outcome of the
\* four-step decision procedure.
C5_Procedure ==
  fpc = "done" => flat = RefFlatten(result)

\* Two text blocks under content have been joined by a newline.
C5_Witness ==
  /\ fpc = "done"
  /\ IsTree(result)
  /\ Get(result, "content") =
       Arr(<<Block(<<Str("text")>>, <<Str("a")>>), Block(<<Str("text")>>, <<Str("b")>>)>>)
  /\ flat = Ret("a\nb")

(***************************************************************************)
(* C4, C7, C8, C10 (adapter).                                              *)
(***************************************************************************)
\* The output tool stored under the name of input tool i
OutputTool(i) == heap[returned[ToolName(i)]]

\* C4 as stated: on every output tool, the rendering hook of the original
\* is absent, whether or not the tool has an execution function.
C4_Original ==
  status = "returned" =>
    \A i \in 1..NTools : OutputTool(i).toModelOutput # "hook"

\* C4 amended: on every output tool made from a tool that has an execution
\* function, the rendering hook is absent (undefined), whether or not its
\* schema was sanitized; an output tool made from a tool without an
\* execution function keeps the rendering hook of the original.
C4_HookRemoved ==
  status = "returned" =>
    \A i \in 1..NTools :
      /\ given[i].execute.kind # "absent" => OutputTool(i).toModelOutput = "undefined"
      /\ given[i].execute.kind = "absent" =>
           OutputTool(i).toModelOutput = given[i].toModelOutput

\* A hook has been removed from a tool whose schema was sanitized and from
\* one whose schema was kept.
C4_Witness ==
  /\ status = "returned"
  /\ \E i, j \in 1..NTools :
       /\ given[i].toModelOutput = "hook" /\ given[j].toModelOutput = "hook"
       /\ given[i].execute.kind = "original" /\ given[j].execute.kind = "original"
       /\ OutputTool(i).inputSchema.kind = "constructed"
       /\ OutputTool(j).inputSchema.kind = "original"
       /\ OutputTool(i).toModelOutput = "undefined"
       /\ OutputTool(j).toModelOutput = "undefined"

\* C7: a tool whose canonical schema is absent or not a tree keeps its
\* original descriptor and has its execution function wrapped; a tool whose
\* canonical schema is a tree gets the descriptor constructed from
\* sanitizeSchema of that tree.
C7_SchemaRewiring ==
  status = "returned" =>
    \A i \in 1..NTools :
      LET canon == given[i].inputSchema.canon IN
      /\ ~IsTree(canon) =>
           /\ OutputTool(i).inputSchema = given[i].inputSchema
           /\ given[i].execute.kind = "original" =>
                OutputTool(i).execute = Wrapped(given[i].execute.fn)
      /\ IsTree(canon) =>
           OutputTool(i).inputSchema = jsonSchema(sanitizeSchema(canon))

\* The input tools whose canonicalization fails
FailingTools == {i \in 1..NTools : given[i].inputSchema.canon.t = "throws"}
FirstFailing == CHOOSE i \in FailingTools : \A j \in FailingTools : i <= j

\* C8: if the canonicalizer fails for a tool, sanitizeTools fails with that
\* error, the remaining tools are not adapted and no collection is returned.
C8_WholeCallFailure ==
  status \in {"returned", "failed"} =>
    IF FailingTools # {}
    THEN /\ status = "failed"
         /\ thrown = given[FirstFailing].inputSchema.canon.s
         /\ returned = <<>>
         /\ DOMAIN out = {ToolName(i) : i \in 1..(FirstFailing - 1)}
    ELSE status = "returned" /\ thrown = ""

\* The canonicalizer failed for the second tool after the first was adapted.
C8_Witness ==
  /\ status = "failed"
  /\ FailingTools # {}
  /\ FirstFailing = 2
  /\ thrown = "CanonError:tool2"
  /\ DOMAIN out = {"tool1"}
  /\ returned = <<>>

\* C10: after any call the input collection, every input tool record and
\* every canonical schema tree are unchanged, and a successful call returns
\* one output tool per input tool under the same name.
C10_Pure ==
  /\ tools = InputCollection
  /\ \A i \in 1..NTools : heap[i] = given[i]
  /\ status = "returned" =>
       /\ DOMAIN returned = DOMAIN tools
       /\ \A n \in DOMAIN returned : returned[n] \in 1..Len(heap)

\* A call returned a sanitized schema in a new record for one tool and the
\* input record itself for another.
C10_Witness ==
  /\ status = "returned"
  /\ \E i, j \in 1..NTools :
       /\ HasDenyKey(given[i].inputSchema.canon)
       /\ returned[ToolName(i)] # tools[ToolName(i)]
       /\ ~HasDenyKey(OutputTool(i).inputSchema.canon)
       /\ heap[i] = given[i]
       /\ returned[ToolName(j)] = tools[ToolName(j)]

(***************************************************************************)
(* C6, C9 (wrapped execution).                                             *)
(***************************************************************************)
\* C6: every invocation of an adapted tool calls the original execution
\* function of that tool once with the same arguments and returns
\* flattenContent of its own result, under every interleaving.
C6_WrappedExecution ==
  \A i \in 1..NInv :
    /\ calls[i].pc # "idle" =>
         /\ calls[i].origCalls = 1
         /\ calls[i].origArgs = calls[i].args
         /\ \E t \in 1..NTools :
              /\ ToolName(t) = calls[i].tool
              /\ given[t].execute = Original(calls[i].origFn)
    /\ calls[i].pc \in {"returned", "rejected"} /\ calls[i].settled.k = "resolved" =>
         calls[i].outcome = flattenContent(calls[i].settled.v)
    /\ calls[i].pc = "returned" => calls[i].settled.k = "resolved"

\* An invocation returned "result" for [{type:"text", text:"result"}] while
\* another invocation of the same tool holds a different result.
C6_Witness ==
  \E i, j \in 1..NInv :
    /\ i # j
    /\ calls[i].pc = "returned"
    /\ calls[i].settled.v =
         Arr(<<Obj(<<"type", "text">>, <<Str("text"), Str("result")>>)>>)
    /\ calls[i].outcome = Ret("result")
    /\ calls[j].pc = "settled"
    /\ calls[j].tool = calls[i].tool
    /\ calls[j].args # calls[i].args
    /\ calls[j].settled = Resolved(Str("plain"))

\* C9: if the original execution function rejects, the adapted execution
\* function fails with the same error and flattenContent is not applied.
C9_RejectionPropagates ==
  \A i \in 1..NInv :
    calls[i].settled.k = "rejected" /\ calls[i].pc # "settled" =>
      /\ calls[i].pc = "rejected"
      /\ calls[i].outcome = Throws(calls[i].settled.e)
      /\ ~calls[i].flattened

\* An invocation failed with the error of the original.
C9_Witness ==
  \E i \in 1..NInv :
    /\ calls[i].pc = "rejected"
    /\ calls[i].settled = Rejected("ToolError")
    /\ calls[i].outcome = Throws("ToolError")

====
